---- MODULE Spec2Model ----
(***************************************************************************)
(* Session & Messaging Orchestrator of the WhatsApp integration module:    *)
(* account connection state and agent process lifecycle, webhook           *)
(* ingestion, the outbound send path, the bulk dispatcher, the group       *)
(* roster sync and the contact phone canonicalization.                     *)
(*                                                                         *)
(* Persistence.  Records live in one relational store.  The unique and     *)
(* required-column constraints the models declare are enforced by that     *)
(* store: an INSERT that violates one raises an integrity error and        *)
(* aborts the transaction of the running request.  No code under src/      *)
(* opens a savepoint, so from that point every further query of the        *)
(* request fails and none of the request's writes is kept; calls already   *)
(* made to the agent and OS signals already sent stay made.  A plain       *)
(* Python exception (UserError, ValueError) aborts nothing by itself.      *)
(***************************************************************************)
EXTENDS Integers, Sequences, FiniteSets, TLC

(* ------------------------------ bounds ------------------------------- *)
MaxPid == 2
MaxMessages == 1
MaxSends == 1
MaxInbox == 4
MaxReplies == 2
MaxTime == 1
MaxLen == 3
MaxRoster == 2
MaxContacts == 1
MaxRecipients == 3
MaxStored == 2

(* ------------------------- program constants ------------------------- *)
AutoReplyWindow == 1
NoAccount == 0
UnknownAccount == 3

AccountIds == {1, 2}
NoSecret == "none"
NoPhone == <<>>
NoWaId == "none"
NoHeader == [prefix |-> "none", digest |-> <<>>]
NoId == [src |-> "none", n |-> 0]
NoContact == [account_id |-> NoAccount, phone_number |-> NoPhone]
NoInfo == [ok |-> FALSE, list |-> <<>>]
Info(list) == [ok |-> TRUE, list |-> list]

AccountStatus ==
  {"disconnected", "connecting", "qr_code", "authenticated", "ready",
   "error", "maintenance"}

ProcessStatus == {"stopped", "starting", "running", "stopping", "error"}

VARIABLES
  cfg,        \* per account: webhook_secret, auto_reply, auto_reply_message,
              \* create_lead_from_message
  acct,       \* per account: status, qr_code, qr_code_image, process_id,
              \* process_status, messages_sent, messages_received
  alive,      \* OS process ids that answer a signal
  nextPid,    \* next process id the OS hands out
  contacts,   \* whatsapp.contact rows
  messages,   \* whatsapp.message rows, in creation order
  groups,     \* whatsapp.group rows
  members,    \* whatsapp.group.member rows
  agentLog,   \* requests the agent's /send endpoint accepted, in order
  now,        \* wall clock, in hours
  lastOp,     \* the call that made the last step, with its inputs
  resp,       \* what that call returned to its caller
  phoneIn,    \* phone number given to the last Contact create / write
  bulk,       \* the bulk send in progress: recipients, position, counters
  conn        \* per caller: the action_connect request in flight, if any

vars ==
  <<cfg, acct, alive, nextPid, contacts, messages, groups, members, agentLog,
    now, lastOp, resp, phoneIn, bulk, conn>>

procVars == <<alive, nextPid>>
dbVars == <<acct, contacts, messages, groups, members>>

(* ------------------- contact phone canonicalization ------------------ *)
Digits == {"0", "1", "2", "3", "4", "5", "6", "7", "8", "9"}

PhoneChars == {"1", "2", "+", " ", "-"}

RECURSIVE ReSubNonDigitPlus(_)
ReSubNonDigitPlus(s) ==
  IF s = <<>> THEN <<>>
  ELSE IF Head(s) \in Digits \cup {"+"}
       THEN <<Head(s)>> \o ReSubNonDigitPlus(Tail(s))
       ELSE ReSubNonDigitPlus(Tail(s))

_format_phone_number(phone) ==
  IF phone = <<>> THEN phone
  ELSE LET stripped == ReSubNonDigitPlus(phone)
       IN  IF stripped # <<>> /\ Head(stripped) = "+"
           THEN stripped
           ELSE <<"+">> \o stripped

(* ------------------------- the request's world ----------------------- *)
(* What one request reads and writes: the store's rows, the calls the      *)
(* agent accepted, whether an integrity error has aborted the request's    *)
(* transaction, how many POSTs to the agent's /send the request has made,  *)
(* and whether it has inserted an incoming Message row.                    *)
World ==
  [acct |-> acct, contacts |-> contacts, messages |-> messages,
   groups |-> groups, members |-> members, agentLog |-> agentLog,
   failed |-> FALSE, calls |-> 0, inbound |-> FALSE]

(* The element of a one-element set: Only({e(r) : r \in {x}}) is e with r
   standing for the value of x. *)
Only(S) == CHOOSE x \in S : TRUE

Ok(w, v) == [w |-> w, exc |-> "none", val |-> v]

Raise(w, e) == [w |-> w, exc |-> e, val |-> NoId]

IntegrityError(w) == Raise([w EXCEPT !.failed = TRUE], "IntegrityError")

(* A query sent after the transaction was aborted fails. *)
InFailedSqlTransaction(w) == Raise(w, "InFailedSqlTransaction")

(* ------------------------------ contacts ----------------------------- *)
(* create: the phone number is formatted, then the row is inserted under   *)
(* unique(phone_number, account_id) with account_id required.              *)
WhatsAppContact_create(w, account_id, phone) ==
  LET stored == _format_phone_number(phone)
      row == [account_id |-> account_id, phone_number |-> stored]
  IN  IF w.failed THEN InFailedSqlTransaction(w)
      ELSE IF account_id \notin AccountIds \/ stored = NoPhone
                \/ row \in w.contacts
           THEN IntegrityError(w)
           ELSE Ok([w EXCEPT !.contacts = @ \cup {row}], row)

(* write of a phone number on an existing row. *)
WhatsAppContact_write(w, row, phone) ==
  LET stored == IF phone = NoPhone THEN row.phone_number
                ELSE _format_phone_number(phone)
      new == [row EXCEPT !.phone_number = stored]
  IN  IF w.failed THEN InFailedSqlTransaction(w)
      ELSE IF new # row /\ new \in w.contacts
           THEN IntegrityError(w)
           ELSE Ok([w EXCEPT !.contacts = (@ \ {row}) \cup {new}], new)

(* search([('account_id', '=', a), ('phone_number', '=', phone)], limit=1):
   the stored column is compared with the number as given. *)
ContactSearch(w, account_id, phone) ==
  {c \in w.contacts : c.account_id = account_id /\ c.phone_number = phone}

(* The account is context['default_account_id'], else self.account_id.id;
   create is an @api.model method, self is the empty recordset there, so
   the second operand is always False. *)
_get_or_create_contact(w, ctx, phone) ==
  LET account_id == IF ctx # NoAccount THEN ctx ELSE NoAccount
      found == ContactSearch(w, account_id, phone)
  IN  IF w.failed THEN InFailedSqlTransaction(w)
      ELSE IF found # {} THEN Ok(w, CHOOSE c \in found : TRUE)
           ELSE WhatsAppContact_create(w, account_id, phone)

(* ------------------------------ messages ----------------------------- *)
_generate_message_id(w) == [src |-> "uuid", n |-> Len(w.messages) + 1]

RECURSIVE WhatsAppMessage_create(_, _, _, _)
RECURSIVE send_message(_, _, _, _, _)

(* Prior auto-replies to the sender of m within the last hour. *)
RecentAutoReply(w, m) ==
  {i \in 1..Len(w.messages) :
     /\ w.messages[i].account_id = m.account_id
     /\ w.messages[i].to_number = m.from_number
     /\ w.messages[i].direction = "outgoing"
     /\ w.messages[i].is_auto_reply
     /\ w.messages[i].timestamp > now - AutoReplyWindow}

(* The agent calls made since w, marked as made for an auto-reply. *)
MarkAutoReply(w, w2) ==
  [w2 EXCEPT !.agentLog =
     [i \in 1..Len(@) |->
        IF i > Len(w.agentLog) THEN [@[i] EXCEPT !.auto_reply = TRUE]
        ELSE @[i]]]

_handle_auto_reply(w, m, ctx, env) ==
  IF ~cfg[m.account_id].auto_reply_message THEN Ok(w, NoId)
  ELSE IF w.failed THEN InFailedSqlTransaction(w)
  ELSE IF RecentAutoReply(w, m) # {} THEN Ok(w, NoId)
  ELSE Ok(MarkAutoReply(w, send_message(w, m.account_id, m.from_number,
                                        ctx, env).w), NoId)

(* Lead creation: an open lead with the sender's phone is reused; else a
   lead is created, which reads the record whatsapp.lead_source_whatsapp. *)
_create_lead_from_message(w, m, env) ==
  IF w.failed THEN InFailedSqlTransaction(w)
  ELSE IF env.lead = "fails" THEN Raise(w, "ValueError")
  ELSE Ok(w, NoId)

_send_notification(w, m, env) ==
  IF m.direction # "incoming" THEN Ok(w, NoId)
  ELSE IF env.notify = "fails" THEN Raise(w, "Exception")
  ELSE Ok(w, NoId)

_process_message(w, m, ctx, env) ==
  Only({IF r1.exc # "none" THEN r1
        ELSE Only({IF r2.exc # "none" THEN r2
                   ELSE _send_notification(r2.w, m, env) :
                   r2 \in {IF /\ m.direction = "incoming"
                              /\ cfg[m.account_id].create_lead_from_message
                           THEN _create_lead_from_message(r1.w, m, env)
                           ELSE Ok(r1.w, NoId)}}) :
        r1 \in {IF /\ m.direction = "incoming"
                   /\ cfg[m.account_id].auto_reply
                   /\ m.message_type = "text"
                THEN _handle_auto_reply(w, m, ctx, env)
                ELSE Ok(w, NoId)}})

(* create(vals): message_id defaults to a generated id; the contact is
   resolved from from_number (incoming) or to_number (outgoing); the row is
   inserted under unique(message_id); then _process_message runs. *)
WhatsAppMessage_create(w, ctx, vals, env) ==
  LET message_id == IF vals.message_id = NoId THEN _generate_message_id(w)
                    ELSE vals.message_id
      number == IF vals.from_number # NoPhone /\ vals.direction = "incoming"
                THEN vals.from_number
                ELSE IF vals.to_number # NoPhone /\ vals.direction = "outgoing"
                     THEN vals.to_number
                     ELSE NoPhone
      row(contact) ==
        [account_id |-> vals.account_id,
         message_id |-> message_id,
         wa_message_id |-> vals.wa_message_id,
         direction |-> vals.direction,
         message_type |-> vals.message_type,
         from_number |-> vals.from_number,
         to_number |-> vals.to_number,
         contact_id |-> contact,
         is_auto_reply |-> FALSE,
         status |-> vals.status,
         timestamp |-> now]
  IN  Only({IF rc.exc # "none" THEN Raise(rc.w, rc.exc)
            ELSE IF rc.w.failed THEN InFailedSqlTransaction(rc.w)
            ELSE IF \E i \in 1..Len(rc.w.messages) :
                      rc.w.messages[i].message_id = message_id
                 THEN IntegrityError(rc.w)
                 ELSE Only({IF rp.exc # "none" THEN rp
                            ELSE Ok(rp.w, row(rc.val)) :
                            rp \in {_process_message(
                                      [rc.w EXCEPT
                                         !.messages = Append(@, row(rc.val)),
                                         !.inbound =
                                           @ \/ vals.direction = "incoming"],
                                      row(rc.val), ctx, env)}}) :
            rc \in {IF number = NoPhone THEN Ok(w, NoContact)
                    ELSE _get_or_create_contact(w, ctx, number)}})

(* An agent that is taken to answer 200 whatever it answered. *)
HttpAlwaysOk(answer) == TRUE

(* response.status_code == 200 *)
HttpOk(answer) == answer = "ok"

(* send_message: the account must be ready; the agent is called; on HTTP
   200 the outgoing Message is created and messages_sent incremented; every
   exception inside is re-raised as a UserError. *)
send_message(w, a, to, ctx, env) ==
  IF w.acct[a].status # "ready" THEN Raise(w, "UserError")
  ELSE IF env.agent = "timeout"
       THEN Raise([w EXCEPT !.calls = @ + 1], "UserError")
  ELSE IF ~HttpOk(env.agent)
       THEN Raise([w EXCEPT !.calls = @ + 1], "UserError")
  ELSE LET w1 == [w EXCEPT !.calls = @ + 1,
                           !.agentLog =
                     Append(@, [account_id |-> a, to |-> to, time |-> now,
                                auto_reply |-> FALSE])]
           vals == [account_id |-> a, message_id |-> env.agent_id,
                    wa_message_id |-> NoWaId, direction |-> "outgoing",
                    message_type |-> "text", from_number |-> NoPhone,
                    to_number |-> to, status |-> "sent"]
       IN  Only({IF r.exc # "none" THEN Raise(r.w, "UserError")
                 ELSE Ok([r.w EXCEPT !.acct[a].messages_sent = @ + 1], r.val) :
                 r \in {WhatsAppMessage_create(w1, ctx, vals, env)}})

(* The values of the status field of a Message. *)
MessageStatus == {"pending", "sent", "delivered", "read", "failed", "error"}

(* mark_as_read on the i-th Message: a status other than read becomes read;
   the read receipt that follows is sent inside a try/except. *)
mark_as_read(w, i) ==
  IF w.messages[i].status # "read"
  THEN [w EXCEPT !.messages[i].status = "read"]
  ELSE w

(* --------------------------- bulk dispatcher ------------------------- *)
NoJob == [status |-> "none", total_recipients |-> 0, success_count |-> 0,
          error_count |-> 0]

(* The agent's answer to the i-th send of a bulk run. *)
BulkEnv(out) ==
  [agent |-> out, agent_id |-> NoId, lead |-> "ok", notify |-> "ok",
   contacts |-> NoInfo, info |-> NoInfo]

(* The loop over the recipients: one send_message per recipient, in list
   order; a send that returns counts as a success, one that raises as an
   error.  acc is [w, success_count, error_count, attempts]. *)
RECURSIVE BulkLoop(_, _, _, _, _)
BulkLoop(acc, a, recipients, ctx, outs) ==
  IF recipients = <<>> THEN acc
  ELSE Only({BulkLoop(
               [w |-> r.w,
                success_count |->
                  acc.success_count + (IF r.exc = "none" THEN 1 ELSE 0),
                error_count |->
                  acc.error_count + (IF r.exc = "none" THEN 0 ELSE 1),
                attempts |-> Append(acc.attempts, Head(recipients))],
               a, Tail(recipients), ctx, Tail(outs)) :
             r \in {send_message(acc.w, a, Head(recipients), ctx,
                                 BulkEnv(Head(outs)))}})

(* _send_bulk_message_now: the job is created as running, the loop runs,
   the job is written completed with the two counters.  The result is
   [w, exc, job, attempts]; job is the row as the method left it. *)
_send_bulk_message_now(w, a, recipients, ctx, outs) ==
  LET job == [status |-> "running", total_recipients |-> Len(recipients),
              success_count |-> 0, error_count |-> 0]
  IN  Only({IF acc.w.failed
            THEN [w |-> acc.w, exc |-> "InFailedSqlTransaction", job |-> job,
                  attempts |-> acc.attempts]
            ELSE [w |-> acc.w, exc |-> "none",
                  job |-> [job EXCEPT !.status = "completed",
                                      !.success_count = acc.success_count,
                                      !.error_count = acc.error_count],
                  attempts |-> acc.attempts] :
            acc \in {BulkLoop([w |-> w, success_count |-> 0,
                               error_count |-> 0, attempts |-> <<>>],
                              a, recipients, ctx, outs)}})

(* --------------------- agent process and connection ------------------ *)
(* os.kill(pid, 0): the process id answers a signal. *)
_is_process_running(w, al, a) ==
  w.acct[a].process_id # 0 /\ w.acct[a].process_id \in al

(* p is [w, alive, nextPid, trace]: the store, the OS process table (the
   process ids that answer a signal) and, in order, the OS operations the
   request made and the values it wrote to process_status. *)
_start_whatsapp_process(p, a, launch) ==
  IF _is_process_running(p.w, p.alive, a) THEN [p |-> p, exc |-> "none"]
  ELSE IF launch = "ok"
       THEN [p |-> [p EXCEPT !.w.acct[a].process_id = p.nextPid,
                             !.w.acct[a].process_status = "starting",
                             !.alive = @ \cup {p.nextPid},
                             !.nextPid = @ + 1,
                             !.trace = @ \o <<"Popen", "starting">>],
             exc |-> "none"]
       ELSE [p |-> [p EXCEPT !.w.acct[a].process_status = "error",
                             !.w.acct[a].status = "error",
                             !.trace = @ \o <<"Popen", "error">>],
             exc |-> "UserError"]

(* A liveness check after the wait that always answers "running". *)
AlwaysRunningAfterWait(al, pid, os) == TRUE

(* self._is_process_running() after the wait: the process id still answers
   unless the process exited on the SIGTERM. *)
RunningAfterWait(al, pid, os) == pid \in al /\ os # "exits"

(* SIGTERM, a fixed wait, SIGKILL if the process still answers.  os says
   what the process does: "exits" within the wait, "lingers" until the
   SIGKILL, or is "gone" between the liveness check and the SIGKILL.  A
   signal to a process id that no longer answers raises; the handler then
   writes process_status error and keeps process_id. *)
_stop_whatsapp_process(p, a, os) ==
  LET pid == p.w.acct[a].process_id
  IN  IF pid = 0 THEN p
      ELSE IF pid \notin p.alive
      THEN [p EXCEPT !.w.acct[a].process_status = "error",
                     !.trace = @ \o <<"SIGTERM", "error">>]
      ELSE IF ~RunningAfterWait(p.alive, pid, os)
      THEN [p EXCEPT !.w.acct[a].process_id = 0,
                     !.w.acct[a].process_status = "stopped",
                     !.alive = @ \ {pid},
                     !.trace = @ \o <<"SIGTERM", "sleep", "stopped">>]
      ELSE IF os = "gone"
      THEN [p EXCEPT !.w.acct[a].process_status = "error",
                     !.alive = @ \ {pid},
                     !.trace = @ \o <<"SIGTERM", "sleep", "SIGKILL", "error">>]
      ELSE [p EXCEPT !.w.acct[a].process_id = 0,
                     !.w.acct[a].process_status = "stopped",
                     !.alive = @ \ {pid},
                     !.trace = @ \o <<"SIGTERM", "sleep", "SIGKILL",
                                      "stopped">>]

action_connect(p, a, launch) ==
  IF p.w.acct[a].status \in {"connecting", "authenticated", "ready"}
  THEN [p |-> p, exc |-> "UserError"]
  ELSE _start_whatsapp_process(
         [p EXCEPT !.w.acct[a].status = "connecting"], a, launch)

(* A disconnect that leaves the QR material in place. *)
DisconnectKeepsQr(p, a, os) ==
  [p |-> [_stop_whatsapp_process(p, a, os)
            EXCEPT !.w.acct[a].status = "disconnected"],
   exc |-> "none"]

action_disconnect(p, a, os) ==
  LET q == _stop_whatsapp_process(p, a, os)
  IN  [p |-> [q EXCEPT !.w.acct[a].status = "disconnected",
                       !.w.acct[a].qr_code = FALSE,
                       !.w.acct[a].qr_code_image = FALSE],
       exc |-> "none"]

(* action_restart: action_disconnect, a fixed wait, action_connect. *)
action_restart(p, a, os, launch) ==
  action_connect(action_disconnect(p, a, os).p, a, launch)

(* Agent status strings and the account status each maps to. *)
AgentStatus ==
  {"disconnected", "connecting", "qr", "authenticated", "ready", "error"}

NoStatus == "none"

(* A table that hands the agent's string through. *)
StatusUnmapped(status) == status

status_mapping(status) ==
  CASE status = "disconnected" -> "disconnected"
    [] status = "connecting" -> "connecting"
    [] status = "qr" -> "qr_code"
    [] status = "authenticated" -> "authenticated"
    [] status = "ready" -> "ready"
    [] status = "error" -> "error"
    [] OTHER -> "error"

(* Health check: api is the agent's answer to GET /status: "timeout" (the
   request raised), "http_error" (not 200), or a 200 with data. *)
_check_account_status(p, a, api) ==
  IF api.kind = "timeout"
  THEN [p EXCEPT !.w.acct[a].status = "error",
                 !.w.acct[a].process_status = "error"]
  ELSE IF api.kind = "http_error" THEN p
  ELSE LET status == IF api.status = NoStatus THEN "disconnected"
                     ELSE api.status
           new_status == status_mapping(status)
           p1 == IF new_status # p.w.acct[a].status
                 THEN IF new_status = "qr_code"
                      THEN [p EXCEPT !.w.acct[a].status = new_status,
                                     !.w.acct[a].qr_code = api.qr,
                                     !.w.acct[a].qr_code_image = api.qr]
                      ELSE [p EXCEPT !.w.acct[a].status = new_status]
                 ELSE p
       IN  IF _is_process_running(p1.w, p1.alive, a)
           THEN [p1 EXCEPT !.w.acct[a].process_status = "running"]
           ELSE [p1 EXCEPT !.w.acct[a].process_status = "stopped"]

(* ------------------------------- groups ------------------------------ *)
GroupKey(g) == <<g.account_id, g.group_id>>

(* The loop of _sync_members over the participants: find or create the
   Contact, then insert the member row under unique(phone_number,
   group_id).  Every participant is taken to carry a name. *)
RECURSIVE AddMembers(_, _, _)
AddMembers(w, g, participants) ==
  IF participants = <<>> THEN Ok(w, NoId)
  ELSE LET phone == Head(participants)
           found == ContactSearch(w, g.account_id, phone)
           rc == IF w.failed THEN InFailedSqlTransaction(w)
                 ELSE IF found # {} THEN Ok(w, NoId)
                 ELSE WhatsAppContact_create(w, g.account_id, phone)
           row == [group |-> GroupKey(g), phone_number |-> phone]
       IN  IF rc.exc # "none" THEN rc
           ELSE IF row \in rc.w.members THEN IntegrityError(rc.w)
           ELSE AddMembers([rc.w EXCEPT !.members = @ \cup {row}], g,
                           Tail(participants))

(* The agent's answer for the group: NoInfo, or its participant list. *)
_get_group_info(info) == info

(* _sync_members: nothing without group info; else the group's rows are
   unlinked and rebuilt; any exception is logged and swallowed. *)
_sync_members(w, g, info) ==
  IF ~_get_group_info(info).ok \/ w.failed THEN w
  ELSE AddMembers([w EXCEPT !.members = {m \in @ : m.group # GroupKey(g)}],
                  g, _get_group_info(info).list).w

GroupSearch(w, account_id, group_id) ==
  {g \in w.groups : g.account_id = account_id /\ g.group_id = group_id}

WhatsAppGroup_create(w, g, info) ==
  IF w.failed THEN w
  ELSE IF GroupSearch(w, g.account_id, g.group_id) # {}
       THEN [w EXCEPT !.failed = TRUE]
       ELSE _sync_members([w EXCEPT !.groups = @ \cup {g}], g, info)

(* ------------------------------ webhook ------------------------------ *)
(* HMAC-SHA256 hex digest of the payload under the secret: distinct
   (secret, payload) pairs give distinct digests. *)
Hmac(secret, payload) == <<secret, payload>>

(* A verification that lets a request without the header through. *)
VerifyAcceptsAbsentHeader(secret, payload, signature) ==
  \/ signature = NoHeader
  \/ signature = [prefix |-> "sha256=", digest |-> Hmac(secret, payload)]

_verify_webhook_signature(secret, payload, signature) ==
  IF signature = NoHeader THEN FALSE
  ELSE signature = [prefix |-> "sha256=", digest |-> Hmac(secret, payload)]

(* A message handler without its try/except. *)
ProcessMessageEventUncaught(w, a, data, ctx, env) ==
  LET vals == [account_id |-> a, message_id |-> NoId,
               wa_message_id |-> data.id, direction |-> "incoming",
               message_type |-> data.type, from_number |-> data.from,
               to_number |-> NoPhone, status |-> "delivered"]
  IN  Only({IF r.exc # "none" THEN Raise(r.w, r.exc)
            ELSE Ok([r.w EXCEPT !.acct[a].messages_received = @ + 1], NoId) :
            r \in {WhatsAppMessage_create(w, ctx, vals, env)}})

_process_message_event(w, a, data, ctx, env) ==
  LET vals == [account_id |-> a, message_id |-> NoId,
               wa_message_id |-> data.id, direction |-> "incoming",
               message_type |-> data.type, from_number |-> data.from,
               to_number |-> NoPhone, status |-> "delivered"]
  IN  Only({IF r.exc # "none" THEN Ok(r.w, NoId)
            ELSE Ok([r.w EXCEPT !.acct[a].messages_received = @ + 1], NoId) :
            r \in {WhatsAppMessage_create(w, ctx, vals, env)}})

_process_status_event(w, a, data) ==
  Ok([w EXCEPT !.acct[a].status = status_mapping(data.status)], NoId)

_process_qr_event(w, a, data) ==
  Ok([w EXCEPT !.acct[a].status = "qr_code",
               !.acct[a].qr_code = data.qr,
               !.acct[a].qr_code_image = data.qr_image], NoId)

(* One contact of the agent's list: written when a row with that number
   exists, created otherwise. *)
_sync_contact(w, a, phone) ==
  LET found == ContactSearch(w, a, phone)
  IN  IF w.failed THEN InFailedSqlTransaction(w)
      ELSE IF found # {}
           THEN WhatsAppContact_write(w, CHOOSE c \in found : TRUE, phone)
           ELSE WhatsAppContact_create(w, a, phone)

RECURSIVE SyncContactList(_, _, _)
SyncContactList(w, a, list) ==
  IF list = <<>> THEN Ok(w, NoId)
  ELSE LET r == _sync_contact(w, a, Head(list))
       IN  IF r.exc # "none" THEN r ELSE SyncContactList(r.w, a, Tail(list))

sync_contacts(w, a, list) ==
  IF w.acct[a].status # "ready" \/ ~list.ok THEN Raise(w, "UserError")
  ELSE LET r == SyncContactList(w, a, list.list)
       IN  IF r.exc # "none" THEN Raise(r.w, "UserError") ELSE r

_process_ready_event(w, a, env) ==
  Ok(sync_contacts([w EXCEPT !.acct[a].status = "ready"], a,
                   env.contacts).w, NoId)

_process_disconnected_event(w, a) ==
  Ok([w EXCEPT !.acct[a].status = "disconnected",
               !.acct[a].qr_code = FALSE,
               !.acct[a].qr_code_image = FALSE], NoId)

_process_group_join_event(w, a, data, env) ==
  LET found == GroupSearch(w, a, data.id)
      g == [account_id |-> a, group_id |-> data.id, is_member |-> TRUE]
  IN  IF found # {}
      THEN Ok([w EXCEPT !.groups = (@ \ found) \cup {g}], NoId)
      ELSE Ok(WhatsAppGroup_create(w, g, env.info), NoId)

_process_group_leave_event(w, a, data) ==
  LET found == GroupSearch(w, a, data.id)
  IN  Ok([w EXCEPT !.groups =
            (@ \ found) \cup {[g EXCEPT !.is_member = FALSE] : g \in found}],
         NoId)

Dispatch(w, a, body, ctx, env) ==
  CASE body.event = "message" -> _process_message_event(w, a, body, ctx, env)
    [] body.event = "status" -> _process_status_event(w, a, body)
    [] body.event = "qr" -> _process_qr_event(w, a, body)
    [] body.event = "ready" -> _process_ready_event(w, a, env)
    [] body.event = "disconnected" -> _process_disconnected_event(w, a)
    [] body.event = "group_join" -> _process_group_join_event(w, a, body, env)
    [] body.event = "group_leave" -> _process_group_leave_event(w, a, body)
    [] OTHER -> Ok(w, NoId)

(* A route that verifies the header of every account. *)
SecretAlwaysConfigured(secret) == TRUE

(* Whether the route verifies the signature header. *)
SecretConfigured(secret) == secret # NoSecret

(* The route: account lookup, signature check when a secret is set,
   dispatch on the event kind, {'success': True}; an exception that
   reaches the route becomes {'error': str(e)}. *)
whatsapp_webhook(w, account_id, signature, body, ctx, env) ==
  IF account_id \notin AccountIds
  THEN [w |-> w, resp |-> [kind |-> "error", detail |-> "Account not found"]]
  ELSE IF /\ SecretConfigured(cfg[account_id].webhook_secret)
          /\ ~_verify_webhook_signature(cfg[account_id].webhook_secret,
                                        body, signature)
       THEN [w |-> w,
             resp |-> [kind |-> "error", detail |-> "Invalid signature"]]
       ELSE Only({IF r.exc # "none"
                  THEN [w |-> r.w,
                        resp |-> [kind |-> "error", detail |-> r.exc]]
                  ELSE [w |-> r.w,
                        resp |-> [kind |-> "success", detail |-> "none"]] :
                  r \in {Dispatch(w, account_id, body, ctx, env)}})

(* ------------------------------ actions ------------------------------ *)
(* End of a request: an aborted transaction keeps none of its writes; the
   calls the agent accepted stay made. *)
Commit(w, maxRows, maxSends) ==
  /\ acct' = IF w.failed THEN acct ELSE w.acct
  /\ contacts' = IF w.failed THEN contacts ELSE w.contacts
  /\ messages' = IF w.failed THEN messages ELSE w.messages
  /\ groups' = IF w.failed THEN groups ELSE w.groups
  /\ members' = IF w.failed THEN members ELSE w.members
  /\ agentLog' = w.agentLog
  /\ Len(messages') <= maxRows
  /\ Len(agentLog') <= maxSends

(* How a presented header relates to the account's secret and the body. *)
SigClass(account_id, signature, body) ==
  IF signature = NoHeader THEN "missing"
  ELSE IF /\ account_id \in AccountIds
          /\ cfg[account_id].webhook_secret # NoSecret
          /\ signature.prefix = "sha256="
          /\ signature.digest = Hmac(cfg[account_id].webhook_secret, body)
       THEN "good"
       ELSE "bad"

Webhook(account_id, signature, body, ctx, env, maxRows, maxSends) ==
  \E r \in {whatsapp_webhook(World, account_id, signature, body, ctx, env)} :
      /\ Commit(r.w, maxRows, maxSends)
      /\ resp' = r.resp
      /\ lastOp' = [op |-> "webhook", account |-> account_id,
                    event |-> IF body.event = "message" THEN "message"
                              ELSE "other",
                    sig |-> SigClass(account_id, signature, body)]
      /\ UNCHANGED <<cfg, alive, nextPid, now, phoneIn, bulk, conn>>

(* The agent delivers a message event with the signature the account
   expects.  lastOp keeps the sender and whether the request inserted the
   incoming Message row. *)
MessageDelivery(account_id, body, ctx, env) ==
  \E r \in {whatsapp_webhook(World, account_id,
                              [prefix |-> "sha256=",
                               digest |-> Hmac(cfg[account_id].webhook_secret,
                                               body)],
                              body, ctx, env)} :
      /\ Commit(r.w, MaxInbox, MaxReplies)
      /\ resp' = r.resp
      /\ lastOp' = [op |-> "webhook", account |-> account_id,
                    event |-> "message", sig |-> "good",
                    from |-> body.from, primary |-> r.w.inbound]
      /\ UNCHANGED <<cfg, alive, nextPid, now, phoneIn, bulk, conn>>

(* The agent delivers a status event with the signature the account
   expects.  lastOp keeps the status string the event reported. *)
StatusDelivery(account_id, body, env) ==
  \E r \in {whatsapp_webhook(World, account_id,
                              [prefix |-> "sha256=",
                               digest |-> Hmac(cfg[account_id].webhook_secret,
                                               body)],
                              body, NoAccount, env)} :
      /\ Commit(r.w, MaxMessages, MaxSends)
      /\ resp' = r.resp
      /\ lastOp' = [op |-> "webhook", account |-> account_id,
                    event |-> "status", sig |-> "good",
                    status |-> body.status]
      /\ UNCHANGED <<cfg, alive, nextPid, now, phoneIn, bulk, conn>>

Proc == [w |-> World, alive |-> alive, nextPid |-> nextPid, trace |-> <<>>]

ProcCommit(p) ==
  /\ acct' = p.w.acct
  /\ alive' = p.alive
  /\ nextPid' = p.nextPid
  /\ nextPid' <= MaxPid + 1
  /\ UNCHANGED <<cfg, contacts, messages, groups, members, agentLog, now,
                 phoneIn, bulk, conn>>

Outcome(exc) ==
  IF exc = "none" THEN [kind |-> "returned", detail |-> "none"]
  ELSE [kind |-> "raised", detail |-> exc]

ActionConnect(a, launch) ==
  LET r == action_connect(Proc, a, launch)
  IN  /\ ProcCommit(r.p)
      /\ resp' = Outcome(r.exc)
      /\ lastOp' = [op |-> "action_connect", account |-> a,
                    pre |-> acct[a].status, os |-> "none",
                    trace |-> r.p.trace]

ActionDisconnect(a, os) ==
  LET r == action_disconnect(Proc, a, os)
  IN  /\ ProcCommit(r.p)
      /\ resp' = Outcome(r.exc)
      /\ lastOp' = [op |-> "action_disconnect", account |-> a,
                    pre |-> acct[a].status, os |-> os,
                    trace |-> r.p.trace]

ActionRestart(a, os, launch) ==
  LET r == action_restart(Proc, a, os, launch)
  IN  /\ ProcCommit(r.p)
      /\ resp' = Outcome(r.exc)
      /\ lastOp' = [op |-> "action_restart", account |-> a,
                    pre |-> acct[a].status, os |-> os,
                    trace |-> r.p.trace]

(* action_connect as a request that overlaps others.  The request works on
   the account row as it was committed when its transaction began: it
   checks the status, writes connecting and starts the agent process;
   subprocess.Popen acts on the OS at once, the writes to the row stay in
   the request's transaction until it ends. *)
ConnectBegin(u, a, launch) ==
  /\ conn[u].pc = "idle"
  /\ \E r \in {action_connect(Proc, a, launch)} :
       /\ alive' = r.p.alive
       /\ nextPid' = r.p.nextPid
       /\ nextPid' <= MaxPid + 1
       /\ conn' = [conn EXCEPT ![u] = [pc |-> "running", account |-> a,
                                       snap |-> acct[a],
                                       row |-> r.p.w.acct[a],
                                       exc |-> r.exc]]
  /\ resp' = Outcome("none")
  /\ lastOp' = [op |-> "action_connect:begin", account |-> a,
                pre |-> acct[a].status]
  /\ UNCHANGED <<cfg, acct, contacts, messages, groups, members, agentLog,
                 now, phoneIn, bulk>>

(* The request ends.  Its writes are committed unless the row was changed
   by a request that committed in between: the store then refuses the
   update (the transaction is serializable on the row) and the request's
   writes are dropped; the process it started stays started. *)
ConnectEnd(u) ==
  /\ conn[u].pc = "running"
  /\ acct' = IF conn[u].exc = "none" /\ acct[conn[u].account] = conn[u].snap
             THEN [acct EXCEPT ![conn[u].account] = conn[u].row]
             ELSE acct
  /\ resp' = IF conn[u].exc # "none" THEN Outcome(conn[u].exc)
             ELSE IF acct[conn[u].account] = conn[u].snap
                  THEN Outcome("none")
                  ELSE Outcome("SerializationFailure")
  /\ conn' = [conn EXCEPT ![u] = [pc |-> "idle", account |-> NoAccount]]
  /\ lastOp' = [op |-> "action_connect:end", account |-> conn[u].account,
                pre |-> conn[u].snap.status]
  /\ UNCHANGED <<cfg, alive, nextPid, contacts, messages, groups, members,
                 agentLog, now, phoneIn, bulk>>

CronCheckAccountStatus(a, api) ==
  /\ ProcCommit(_check_account_status(Proc, a, api))
  /\ resp' = Outcome("none")
  /\ lastOp' = [op |-> "cron_check_account_status", account |-> a,
                pre |-> acct[a].status, api |-> api]

(* The operator puts an account into maintenance (a write of the status
   field; no method of the module sets this value). *)
SetMaintenance(a) ==
  /\ acct[a].status = "disconnected"
  /\ acct' = [acct EXCEPT ![a].status = "maintenance"]
  /\ resp' = Outcome("none")
  /\ lastOp' = [op |-> "write", account |-> a, pre |-> acct[a].status]
  /\ UNCHANGED <<cfg, alive, nextPid, contacts, messages, groups, members,
                 agentLog, now, phoneIn, bulk, conn>>

(* The agent process exits on its own. *)
ProcessExit(pid) ==
  /\ pid \in alive
  /\ alive' = alive \ {pid}
  /\ resp' = Outcome("none")
  /\ lastOp' = [op |-> "exit", account |-> NoAccount, pre |-> "none"]
  /\ UNCHANGED <<cfg, acct, nextPid, contacts, messages, groups, members,
                 agentLog, now, phoneIn, bulk, conn>>

(* A caller sends one message (the API route, a wizard, a collaborator). *)
SendMessage(a, to, ctx, env) ==
  \E r \in {send_message(World, a, to, ctx, env)} :
      /\ Commit(r.w, MaxInbox, MaxReplies)
      /\ resp' = Outcome(r.exc)
      /\ lastOp' = [op |-> "send_message", account |-> a, to |-> to]
      /\ UNCHANGED <<cfg, alive, nextPid, now, phoneIn, bulk, conn>>

(* POST /whatsapp/api/send_message: the account is looked up, send_message
   is called with the recipient as given, and every exception becomes
   {'error': str(e)}; the request then ends normally. *)
ApiSendMessage(account_id, to, ctx, env) ==
  /\ account_id \in AccountIds
  /\ \E r \in {send_message(World, account_id, to, ctx, env)} :
       /\ Commit(r.w, MaxReplies, MaxReplies)
       /\ resp' = IF r.exc = "none"
                  THEN [kind |-> "success", detail |-> "none"]
                  ELSE [kind |-> "error", detail |-> r.exc]
       /\ lastOp' = [op |-> "api_send_message", account |-> account_id,
                     to |-> to, agent |-> env.agent,
                     pre |-> acct[account_id].status, calls |-> r.w.calls]
  /\ UNCHANGED <<cfg, alive, nextPid, now, phoneIn, bulk, conn>>

(* A user marks a Message as read. *)
MarkAsRead(i) ==
  /\ i \in 1..Len(messages)
  /\ Commit(mark_as_read(World, i), MaxStored, MaxStored)
  /\ resp' = Outcome("none")
  /\ lastOp' = [op |-> "mark_as_read", account |-> messages[i].account_id,
                pre |-> messages[i].status]
  /\ UNCHANGED <<cfg, alive, nextPid, now, phoneIn, bulk, conn>>

(* The bulk wizard's "send now": one request, one transaction.  bulk keeps
   the recipients, the sends attempted, what the agent accepted during the
   run and the job row the store holds afterwards. *)
BulkSend(a, recipients, ctx, outs) ==
  \E r \in {_send_bulk_message_now(World, a, recipients, ctx, outs)} :
      /\ bulk.pc = "idle"
      /\ Commit(r.w, MaxRecipients, MaxRecipients)
      /\ bulk' = [pc |-> "done", recipients |-> recipients,
                  attempts |-> r.attempts,
                  job |-> IF r.w.failed THEN NoJob ELSE r.job]
      /\ resp' = Outcome(r.exc)
      /\ lastOp' = [op |-> "send_bulk", account |-> a, pre |-> acct[a].status]
      /\ UNCHANGED <<cfg, alive, nextPid, now, phoneIn, conn>>

(* A caller creates a contact, or writes the phone number of one. *)
ContactCreate(a, phone) ==
  LET r == WhatsAppContact_create(World, a, phone)
  IN  /\ Commit(r.w, MaxMessages, MaxSends)
      /\ Cardinality(contacts') <= MaxContacts
      /\ phoneIn' = phone
      /\ resp' = Outcome(r.exc)
      /\ lastOp' = [op |-> "contact_create", account |-> a, pre |-> "none"]
      /\ UNCHANGED <<cfg, alive, nextPid, now, bulk, conn>>

ContactWrite(c, phone) ==
  LET r == WhatsAppContact_write(World, c, phone)
  IN  /\ c \in contacts
      /\ Commit(r.w, MaxMessages, MaxSends)
      /\ phoneIn' = phone
      /\ resp' = Outcome(r.exc)
      /\ lastOp' = [op |-> "contact_write", account |-> c.account_id,
                    pre |-> "none"]
      /\ UNCHANGED <<cfg, alive, nextPid, now, bulk, conn>>

(* "Sync members" on a group: the roster the agent reports replaces the
   member rows. *)
SyncMembers(g, info) ==
  /\ g \in groups
  /\ \E w \in {_sync_members(World, g, info)} :
       Commit(w, MaxMessages, MaxSends)
  /\ resp' = Outcome("none")
  /\ lastOp' = [op |-> "sync_members", account |-> g.account_id,
                info |-> info]
  /\ UNCHANGED <<cfg, alive, nextPid, now, phoneIn, bulk, conn>>

Tick ==
  /\ now < MaxTime
  /\ now' = now + 1
  /\ resp' = Outcome("none")
  /\ lastOp' = [op |-> "tick", account |-> NoAccount, pre |-> "none"]
  /\ UNCHANGED <<cfg, acct, alive, nextPid, contacts, messages, groups,
                 members, agentLog, phoneIn, bulk, conn>>

(* ------------------------------ inputs ------------------------------- *)
WaIds == {"w1", "w2"}
Senders == {NoPhone, <<"1">>, <<"+", "1">>}
Contexts == {NoAccount} \cup AccountIds
Operated == {1}

MessageEvents ==
  {[event |-> "message", id |-> i, from |-> f, type |-> t] :
     i \in WaIds, f \in Senders, t \in {"text", "image"}}

StatusEvents ==
  {[event |-> "status", status |-> s] :
     s \in AgentStatus \cup {"bogus", NoStatus}}

QrEvents ==
  {[event |-> "qr", qr |-> q, qr_image |-> q] : q \in BOOLEAN}

GroupEvents ==
  {[event |-> e, id |-> "g1"] : e \in {"group_join", "group_leave"}}

OtherEvents == {[event |-> e] : e \in {"ready", "disconnected", "call"}}

Events ==
  MessageEvents \cup StatusEvents \cup QrEvents \cup GroupEvents
    \cup OtherEvents

Headers(body) ==
  {NoHeader,
   [prefix |-> "sha256=", digest |-> Hmac("k1", body)],
   [prefix |-> "sha256=", digest |-> Hmac("k2", body)],
   [prefix |-> "sha1=", digest |-> Hmac("k1", body)]}

QuietEnv ==
  [agent |-> "ok", agent_id |-> NoId, lead |-> "ok", notify |-> "ok",
   contacts |-> NoInfo, info |-> NoInfo]

(* What the agent answers to a send. *)
SendEnvs ==
  {QuietEnv,
   [QuietEnv EXCEPT !.agent_id = [src |-> "agent", n |-> 1]],
   [QuietEnv EXCEPT !.agent = "http_error"],
   [QuietEnv EXCEPT !.agent = "timeout"]}

Rosters == {NoInfo, Info(<<<<"1">>>>), Info(<<<<"+", "1">>>>)}

(* The inputs an event kind reads. *)
EnvsFor(body) ==
  CASE body.event = "message" ->
         SendEnvs \cup {[QuietEnv EXCEPT !.lead = "fails"],
                        [QuietEnv EXCEPT !.notify = "fails"]}
    [] body.event = "ready" ->
         {[QuietEnv EXCEPT !.contacts = r] : r \in Rosters}
    [] body.event = "group_join" ->
         {[QuietEnv EXCEPT !.info = r] : r \in {NoInfo, Info(<<<<"1">>>>)}}
    [] OTHER -> {QuietEnv}

ApiAnswers ==
  {[kind |-> k, status |-> NoStatus, qr |-> FALSE] :
     k \in {"timeout", "http_error"}}
    \cup {[kind |-> "ok", status |-> s, qr |-> q] :
            s \in AgentStatus \cup {"bogus", NoStatus}, q \in BOOLEAN}

(* --------------------------- specification --------------------------- *)
NewAccount ==
  [status |-> "disconnected", qr_code |-> FALSE, qr_code_image |-> FALSE,
   process_id |-> 0, process_status |-> "stopped", messages_sent |-> 0,
   messages_received |-> 0]

(* The settings of the account under operation: with or without a webhook
   secret, answering automatically or creating leads.  The second account
   is a bystander that owns contacts. *)
Configs ==
  {[a \in AccountIds |->
      [webhook_secret |-> IF a \in Operated THEN k ELSE NoSecret,
       auto_reply |-> a \in Operated /\ k # NoSecret,
       auto_reply_message |-> a \in Operated /\ k # NoSecret,
       create_lead_from_message |-> a \in Operated /\ k = NoSecret]] :
     k \in {"k1", NoSecret}}

NoBulk == [pc |-> "idle", recipients |-> <<>>, attempts |-> <<>>, job |-> NoJob]

(* The users whose requests can overlap; none has a connect in flight. *)
Callers == {"u1", "u2"}

NoConn == [u \in Callers |-> [pc |-> "idle", account |-> NoAccount]]

Init ==
  /\ cfg \in Configs
  /\ acct = [a \in AccountIds |-> NewAccount]
  /\ alive = {}
  /\ nextPid = 1
  /\ contacts = {}
  /\ messages = <<>>
  /\ groups = {}
  /\ members = {}
  /\ agentLog = <<>>
  /\ now = 0
  /\ lastOp = [op |-> "init", account |-> NoAccount, pre |-> "none"]
  /\ resp = Outcome("none")
  /\ phoneIn = NoPhone
  /\ bulk = NoBulk
  /\ conn = NoConn

(* The webhook endpoint: every event kind, to the operated account and to
   an id no account has. *)
EndpointEvents ==
  {m \in MessageEvents : m.id = "w1" /\ m.from \in {NoPhone, <<"1">>}}
    \cup {e \in StatusEvents : e.status \in {"ready", "bogus", NoStatus}}
    \cup QrEvents \cup GroupEvents \cup OtherEvents

WebhookMessage ==
  \E id \in Operated, body \in EndpointEvents \cap MessageEvents,
     ctx \in {NoAccount} \cup Operated :
    \E h \in Headers(body), env \in EnvsFor(body) :
      Webhook(id, h, body, ctx, env, MaxMessages, MaxSends)

WebhookOther ==
  \E id \in Operated, body \in EndpointEvents \ MessageEvents :
    \E h \in Headers(body), env \in EnvsFor(body) :
      Webhook(id, h, body, NoAccount, env, MaxMessages, MaxSends)

WebhookUnknown ==
  \E body \in EndpointEvents :
    \E h \in Headers(body) :
      Webhook(UnknownAccount, h, body, NoAccount, QuietEnv, MaxMessages, MaxSends)

Next ==
  \/ WebhookMessage
  \/ WebhookOther
  \/ WebhookUnknown

Spec == Init /\ [][Next]_vars

(* The last request was a webhook call to an account that exists. *)
HookServed == lastOp.op = "webhook" /\ lastOp.account \in AccountIds

(* C2: when the account has a webhook secret and the X-Hub-Signature-256
   header is missing or is not "sha256=" followed by the HMAC-SHA256 of the
   raw body under the secret, the call returns the error "Invalid
   signature" and changes nothing: no record, no status, no call to the
   agent. *)
C2_InvalidSignatureRejected ==
  [][(/\ lastOp'.op = "webhook"
      /\ lastOp'.account \in AccountIds
      /\ cfg[lastOp'.account].webhook_secret # NoSecret
      /\ lastOp'.sig \in {"missing", "bad"})
     => /\ resp' = [kind |-> "error", detail |-> "Invalid signature"]
        /\ UNCHANGED <<acct, contacts, messages, groups, members,
                       agentLog>>]_vars

(* A message event without the header reached an account with a secret and
   was turned away. *)
C2_Witness ==
  /\ HookServed
  /\ cfg[lastOp.account].webhook_secret # NoSecret
  /\ lastOp.sig = "missing"
  /\ lastOp.event = "message"
  /\ resp = [kind |-> "error", detail |-> "Invalid signature"]

(* C3: when the account has no webhook secret, the signature is not
   checked: whatever header the request carries, the event is handled and
   the call answers success. *)
C3_NoSecretNoVerification ==
  (HookServed /\ cfg[lastOp.account].webhook_secret = NoSecret)
    => resp.kind = "success"

(* A message event without any header was stored for an account without a
   secret. *)
C3_Witness ==
  /\ HookServed
  /\ cfg[lastOp.account].webhook_secret = NoSecret
  /\ lastOp.sig = "missing"
  /\ lastOp.event = "message"
  /\ resp.kind = "success"
  /\ Len(messages) = 1
  /\ acct[lastOp.account].messages_received = 1

(* C10: once the account is found and the signature check passes (or is
   skipped), the call answers success whatever the event kind and whatever
   happens inside the handler. *)
C10_WebhookAcknowledged ==
  (/\ HookServed
   /\ \/ cfg[lastOp.account].webhook_secret = NoSecret
      \/ lastOp.sig = "good")
    => resp = [kind |-> "success", detail |-> "none"]

(* A correctly signed message event whose handler failed: success was
   answered and no message was stored or counted. *)
C10_Witness ==
  /\ HookServed
  /\ lastOp.sig = "good"
  /\ lastOp.event = "message"
  /\ resp.kind = "success"
  /\ messages = <<>>
  /\ acct[lastOp.account].messages_received = 0

(* Message traffic of a ready account that answers automatically: signed
   text message events, sends by a user, the clock. *)
TextEvents ==
  {m \in MessageEvents : m.type = "text" /\ m.from \in {NoPhone, <<"+", "1">>}}

InitMsg ==
  /\ cfg \in {c \in Configs : \A a \in Operated : c[a].auto_reply}
  /\ acct = [a \in AccountIds |->
               IF a \in Operated THEN [NewAccount EXCEPT !.status = "ready"]
               ELSE NewAccount]
  /\ alive = {}
  /\ nextPid = 1
  /\ contacts = {}
  /\ messages = <<>>
  /\ groups = {}
  /\ members = {}
  /\ agentLog = <<>>
  /\ now = 0
  /\ lastOp = [op |-> "init", account |-> NoAccount, pre |-> "none"]
  /\ resp = Outcome("none")
  /\ phoneIn = NoPhone
  /\ bulk = NoBulk
  /\ conn = NoConn

NextMsg ==
  \/ \E id \in Operated, body \in TextEvents, ctx \in {NoAccount} \cup Operated,
        env \in EnvsFor([event |-> "message"]) :
       Webhook(id, [prefix |-> "sha256=",
                    digest |-> Hmac(cfg[id].webhook_secret, body)],
               body, ctx, env, MaxInbox, MaxReplies)
  \/ \E a \in Operated, ctx \in {NoAccount} \cup Operated, env \in SendEnvs :
       SendMessage(a, <<"+", "1">>, ctx, env)
  \/ Tick

SpecMsg == InitMsg /\ [][NextMsg]_vars

(* C1: the same message event (same agent-assigned id) delivered twice to
   the same account leaves one Message record for that id. *)
C1_OneRecordPerDeliveredId ==
  \A i \in 1..Len(messages), j \in 1..Len(messages) :
    (/\ i < j
     /\ messages[i].direction = "incoming"
     /\ messages[j].direction = "incoming"
     /\ messages[i].account_id = messages[j].account_id)
      => messages[i].wa_message_id # messages[j].wa_message_id

(* C6: for a ready account with auto-reply on, the agent is asked to send
   at most one auto-reply to the same number within the hour. *)
C6_OneAutoReplyPerHour ==
  \A i \in 1..Len(agentLog), j \in 1..Len(agentLog) :
    (/\ i < j
     /\ agentLog[i].auto_reply
     /\ agentLog[j].auto_reply
     /\ agentLog[i].account_id = agentLog[j].account_id
     /\ agentLog[i].to = agentLog[j].to)
      => agentLog[j].time - agentLog[i].time >= AutoReplyWindow

(* The send API on an account in any connection status: recipients absent,
   as typed, or canonical. *)
InitSend ==
  /\ cfg \in Configs
  /\ acct \in {[a \in AccountIds |->
                  IF a \in Operated THEN [NewAccount EXCEPT !.status = st]
                  ELSE NewAccount] : st \in AccountStatus}
  /\ alive = {}
  /\ nextPid = 1
  /\ contacts = {}
  /\ messages = <<>>
  /\ groups = {}
  /\ members = {}
  /\ agentLog = <<>>
  /\ now = 0
  /\ lastOp = [op |-> "init", account |-> NoAccount, pre |-> "none"]
  /\ resp = Outcome("none")
  /\ phoneIn = NoPhone
  /\ bulk = NoBulk
  /\ conn = NoConn

NextSend ==
  \E a \in Operated, to \in Senders, ctx \in {NoAccount} \cup Operated,
     env \in SendEnvs :
    ApiSendMessage(a, to, ctx, env)

SpecSend == InitSend /\ [][NextSend]_vars

(* The outgoing Messages of an account. *)
Outgoing(msgs, a) ==
  {i \in 1..Len(msgs) :
     msgs[i].account_id = a /\ msgs[i].direction = "outgoing"}

(* C11: a send to an account that is not ready, or without a recipient
   number, fails before the agent is called: an error is answered, no
   request reaches the agent's send endpoint, no Message is persisted and
   messages_sent does not change. *)
C11_SendValidatedBeforeAgent ==
  [][(/\ lastOp'.op = "api_send_message"
      /\ \/ acct[lastOp'.account].status # "ready"
         \/ lastOp'.to = NoPhone)
     => /\ resp'.kind = "error"
        /\ lastOp'.calls = 0
        /\ agentLog' = agentLog
        /\ messages' = messages
        /\ acct' = acct]_vars

(* C12: every send the agent accepts persists one outgoing Message with
   status sent and adds one to messages_sent, and the counter of an account
   always equals the number of its outgoing Messages. *)
C12_CounterMatchesOutgoing ==
  /\ [](\A a \in AccountIds :
          acct[a].messages_sent = Cardinality(Outgoing(messages, a)))
  /\ [][(lastOp'.op = "api_send_message" /\ Len(agentLog') > Len(agentLog))
         => /\ Len(messages') = Len(messages) + 1
            /\ messages'[Len(messages')].direction = "outgoing"
            /\ messages'[Len(messages')].status = "sent"
            /\ acct'[lastOp'.account].messages_sent
                 = acct[lastOp'.account].messages_sent + 1]_vars

(* C13: when the agent answers a send with a non-success HTTP status, or
   the request to it fails, the caller gets an error, the agent was asked
   once, no Message is persisted and messages_sent is unchanged. *)
C13_FailedSendPersistsNothing ==
  [][(/\ lastOp'.op = "api_send_message"
      /\ acct[lastOp'.account].status = "ready"
      /\ lastOp'.agent \in {"http_error", "timeout"})
     => /\ resp' = [kind |-> "error", detail |-> "UserError"]
        /\ lastOp'.calls = 1
        /\ agentLog' = agentLog
        /\ messages' = messages
        /\ contacts' = contacts
        /\ acct' = acct]_vars

(* A ready account that has already sent one message is asked to send
   another; the agent answers with an HTTP error and the send fails. *)
C13_Witness ==
  /\ lastOp.op = "api_send_message"
  /\ lastOp.pre = "ready"
  /\ lastOp.agent = "http_error"
  /\ lastOp.to # NoPhone
  /\ lastOp.calls = 1
  /\ resp.kind = "error"
  /\ Len(messages) = 1
  /\ acct[lastOp.account].messages_sent = 1

(* One bulk send of a ready account over a list of resolved recipients. *)
RECURSIVE SeqsUpTo(_, _)
SeqsUpTo(S, n) ==
  IF n = 0 THEN {<<>>}
  ELSE LET shorter == SeqsUpTo(S, n - 1)
       IN  shorter \cup {Append(q, x) : q \in shorter, x \in S}

Recipients == SeqsUpTo({<<"1">>, <<"+", "1">>, <<"+", "2">>}, MaxRecipients)

NextBulk ==
  \E a \in Operated, recipients \in Recipients, ctx \in {NoAccount} \cup Operated :
    \E outs \in [1..Len(recipients) -> {"ok", "http_error"}] :
      BulkSend(a, recipients, ctx, outs)

SpecBulk == InitMsg /\ [][NextBulk]_vars

(* C7: a bulk send over N recipients attempts each recipient once, in list
   order, and completes the job with success_count and error_count
   counting the sends that returned and the sends that failed, adding up
   to N. *)
C7_BulkJobCountsEveryRecipient ==
  bulk.pc = "done"
    => /\ bulk.attempts = bulk.recipients
       /\ bulk.job.status = "completed"
       /\ bulk.job.success_count + bulk.job.error_count
            = Len(bulk.recipients)
       /\ bulk.job.success_count
            = Cardinality({i \in 1..Len(messages) :
                            messages[i].direction = "outgoing"})

(* C25: every bulk send ends with its job completed, whatever subset of
   the sends failed: the call returns and the stored job row has status
   completed with the counters written at completion. *)
C25_BulkJobAlwaysCompletes ==
  (lastOp.op = "send_bulk" /\ bulk.pc = "done")
    => /\ resp.kind = "returned"
       /\ bulk.job.status = "completed"
       /\ bulk.job.total_recipients = Len(bulk.recipients)

(* Contacts created and rewritten with phone numbers as typed. *)
Phones == SeqsUpTo(PhoneChars, MaxLen)

NextPhone ==
  \/ \E a \in Operated, phone \in Phones : ContactCreate(a, phone)
  \/ \E c \in contacts, phone \in Phones : ContactWrite(c, phone)

SpecPhone == Init /\ [][NextPhone]_vars

(* Digits after one leading '+'. *)
Canonical(phone) ==
  /\ phone # <<>>
  /\ Head(phone) = "+"
  /\ \A i \in 2..Len(phone) : phone[i] \in Digits

(* C8: every contact stores its phone number in the canonical form, digits
   after a single leading '+', whatever was given to create or write. *)
C8_StoredPhoneCanonical ==
  \A c \in contacts : Canonical(c.phone_number)

(* Roster syncs of one group of the operated account. *)
TheGroup == [account_id |-> 1, group_id |-> "g1", is_member |-> TRUE]

InitGroup ==
  /\ cfg \in Configs
  /\ acct = [a \in AccountIds |-> NewAccount]
  /\ alive = {}
  /\ nextPid = 1
  /\ contacts = {}
  /\ messages = <<>>
  /\ groups = {TheGroup}
  /\ members = {}
  /\ agentLog = <<>>
  /\ now = 0
  /\ lastOp = [op |-> "init", account |-> NoAccount, pre |-> "none"]
  /\ resp = Outcome("none")
  /\ phoneIn = NoPhone
  /\ bulk = NoBulk
  /\ conn = NoConn

(* What the agent reports for the group: nothing, or a list of distinct
   participants, each the digits of a WhatsApp id. *)
GroupRosters ==
  {NoInfo}
    \cup {Info(l) : l \in {q \in SeqsUpTo({<<"1">>, <<"2">>, <<"3">>},
                                           MaxRoster) :
                             \A i, j \in 1..Len(q) : q[i] = q[j] => i = j}}

NextGroup == \E g \in groups, info \in GroupRosters : SyncMembers(g, info)

SpecGroup == InitGroup /\ [][NextGroup]_vars

(* C9: after a member sync for which the agent reported a roster, the
   group's member rows are exactly the reported participants, one row per
   phone number. *)
C9_RosterReplacesMembers ==
  (lastOp.op = "sync_members" /\ lastOp.info.ok)
    => {m.phone_number : m \in {x \in members : x.group = GroupKey(TheGroup)}}
         = {lastOp.info.list[i] : i \in 1..Len(lastOp.info.list)}

(* Connection lifecycle of one account: the users' buttons, the status
   cron, the agent process ending by itself. *)
NextConn ==
  \/ \E a \in Operated, launch \in {"ok", "fails"} : ActionConnect(a, launch)
  \/ \E a \in Operated, os \in {"exits", "lingers", "gone"} :
       ActionDisconnect(a, os)
  \/ \E a \in Operated, os \in {"exits", "lingers", "gone"},
        launch \in {"ok", "fails"} :
       ActionRestart(a, os, launch)
  \/ \E a \in Operated, api \in ApiAnswers : CronCheckAccountStatus(a, api)
  \/ \E a \in Operated : SetMaintenance(a)
  \/ \E pid \in alive : ProcessExit(pid)

SpecConn == Init /\ [][NextConn]_vars

(* C4: action_connect succeeds only from disconnected, error or
   maintenance; from connecting, qr_code, authenticated and ready it raises
   and changes nothing. *)
C4_ConnectOnlyWhenIdle ==
  (lastOp.op = "action_connect" /\ resp.kind = "returned")
    => lastOp.pre \in {"disconnected", "error", "maintenance"}

(* C5: after action_disconnect, from whatever status and whether or not
   the process could be stopped, the account is disconnected and holds no
   QR material; an action_disconnect that directly follows another one
   changes neither the account nor the processes. *)
C5_DisconnectClearsAndIsIdempotent ==
  /\ [](lastOp.op = "action_disconnect"
          => /\ resp.kind = "returned"
             /\ acct[lastOp.account].status = "disconnected"
             /\ ~acct[lastOp.account].qr_code
             /\ ~acct[lastOp.account].qr_code_image)
  /\ [][(/\ lastOp.op = "action_disconnect"
          /\ lastOp'.op = "action_disconnect"
          /\ lastOp'.account = lastOp.account)
         => (acct' = acct /\ alive' = alive)]_vars

(* A disconnect of an account that was already disconnected and whose
   process could not be stopped: the pid is kept, the process status is
   error. *)
C5_Witness ==
  /\ lastOp.op = "action_disconnect"
  /\ lastOp.pre = "disconnected"
  /\ acct[lastOp.account].process_status = "error"
  /\ acct[lastOp.account].process_id # 0
  /\ acct[lastOp.account].status = "disconnected"

(* The request's trace holds x somewhere before position i. *)
Earlier(trace, x, i) == \E j \in 1..(i - 1) : trace[j] = x

LifecycleOps == {"action_connect", "action_disconnect", "action_restart"}

(* C21: every start and stop writes process_status before the OS
   operation (starting before the launch, stopping before the first
   signal) and again after it (running or stopped, error on failure). *)
C21_ProcessStatusAroundOsOperation ==
  lastOp.op \in LifecycleOps =>
    \A i \in 1..Len(lastOp.trace) :
      /\ lastOp.trace[i] = "Popen" =>
           /\ Earlier(lastOp.trace, "starting", i)
           /\ i < Len(lastOp.trace)
           /\ lastOp.trace[i + 1] \in {"running", "error"}
      /\ lastOp.trace[i] = "SIGTERM" =>
           Earlier(lastOp.trace, "stopping", i)

(* C24: a forced kill is sent only after the graceful signal and the wait,
   and only to a process that still answers after the wait; a process that
   exited within the wait gets no forced kill. *)
C24_GracefulBeforeForcedKill ==
  lastOp.op \in {"action_disconnect", "action_restart"} =>
    \A i \in 1..Len(lastOp.trace) :
      lastOp.trace[i] = "SIGKILL" =>
        /\ lastOp.os # "exits"
        /\ i >= 3
        /\ lastOp.trace[i - 1] = "sleep"
        /\ Earlier(lastOp.trace, "SIGTERM", i - 1)

(* A disconnect whose process ignored the graceful signal: SIGTERM, the
   wait, then SIGKILL, and the process is gone. *)
C24_Witness ==
  /\ lastOp.op = "action_disconnect"
  /\ lastOp.os = "lingers"
  /\ lastOp.trace = <<"SIGTERM", "sleep", "SIGKILL", "stopped">>
  /\ acct[lastOp.account].process_id = 0

(* C29: when action_disconnect has returned, process_id is 0 and
   process_status is stopped, also when the tracked process had already
   exited. *)
C29_DisconnectResetsProcessFields ==
  lastOp.op = "action_disconnect" =>
    /\ acct[lastOp.account].process_id = 0
    /\ acct[lastOp.account].process_status = "stopped"

(* The lifecycle with every status the agent can report, over the webhook
   and to the health check. *)
NextStatus ==
  \/ NextConn
  \/ \E id \in Operated, body \in StatusEvents :
       StatusDelivery(id, body, QuietEnv)

SpecStatus == Init /\ [][NextStatus]_vars

(* The account status the specification gives for a reported status. *)
ExpectedStatus(reported) ==
  IF reported \in {"disconnected", "connecting", "authenticated", "ready",
                   "error"}
  THEN reported
  ELSE IF reported = "qr" THEN "qr_code" ELSE "error"

(* C23: the status event handler and the health check map the agent's
   status by the same table (qr to qr_code, the five others to themselves);
   an unrecognized or missing status in a status event gives error; the
   account status is always one of the seven declared values. *)
C23_OneStatusTable ==
  /\ \A a \in AccountIds : acct[a].status \in AccountStatus
  /\ (lastOp.op = "webhook" /\ lastOp.event = "status")
       => acct[lastOp.account].status = ExpectedStatus(lastOp.status)
  /\ (lastOp.op = "cron_check_account_status" /\ lastOp.api.kind = "ok"
        /\ lastOp.api.status # NoStatus)
       => acct[lastOp.account].status = ExpectedStatus(lastOp.api.status)

(* A status event without a recognizable status arrived at a ready
   account and left it in error. *)
C23_Witness ==
  /\ lastOp.op = "webhook"
  /\ lastOp.event = "status"
  /\ lastOp.status \in {"bogus", NoStatus}
  /\ acct[lastOp.account].status = "error"
  /\ acct[lastOp.account].process_id # 0

(* Connection lifecycle with the agent reporting over the webhook: the
   users' buttons, the status cron, the process ending by itself, and the
   agent's status, qr, ready and disconnected events. *)
LifeEvents ==
  {e \in StatusEvents : e.status \in {"ready", "error", "connecting"}}
    \cup {e \in QrEvents : e.qr}
    \cup {e \in OtherEvents : e.event \in {"ready", "disconnected"}}

WebhookLifecycle ==
  \E id \in Operated, body \in LifeEvents :
    Webhook(id, [prefix |-> "sha256=",
                 digest |-> Hmac(cfg[id].webhook_secret, body)],
            body, NoAccount, QuietEnv, MaxMessages, MaxSends)

NextLife ==
  \/ NextConn
  \/ WebhookLifecycle

SpecLife == Init /\ [][NextLife]_vars

(* C14: when the health check finds the agent process dead while the
   account status is ready, the account ends the check with status error
   and process_status stopped. *)
C14_HealthCheckResolvesMismatch ==
  [][(/\ lastOp'.op = "cron_check_account_status"
      /\ acct[lastOp'.account].status = "ready"
      /\ ~_is_process_running(World, alive, lastOp'.account))
     => /\ acct'[lastOp'.account].status = "error"
        /\ acct'[lastOp'.account].process_status = "stopped"]_vars

(* C15: an account whose status is ready has process_status running. *)
C15_ReadyNeedsRunningProcess ==
  \A a \in AccountIds :
    acct[a].status = "ready" => acct[a].process_status = "running"

(* C20: an account in status error stays in error across every webhook
   event and every health check; only action_connect or action_restart
   takes it out of error. *)
C20_ErrorUntilReconnect ==
  [][\A a \in AccountIds :
       (/\ acct[a].status = "error"
        /\ lastOp'.op \in {"webhook", "cron_check_account_status"})
         => acct'[a].status = "error"]_vars

(* C26: after action_disconnect the account stays disconnected until the
   next connect; a status, qr or ready event that arrives late on the
   webhook does not move it. *)
C26_DisconnectedUntilConnect ==
  [][(/\ lastOp.op = "action_disconnect"
      /\ lastOp'.op = "webhook"
      /\ lastOp'.account = lastOp.account)
     => acct'[lastOp.account].status = "disconnected"]_vars

(* C27: a disconnected account holds no QR material, whichever operation
   wrote the status. *)
C27_DisconnectedHoldsNoQr ==
  \A a \in AccountIds :
    acct[a].status = "disconnected"
      => ~acct[a].qr_code /\ ~acct[a].qr_code_image

(* Two users press Connect on the same account in overlapping requests;
   Disconnect and the end of the agent process are single steps. *)
NextRace ==
  \/ \E u \in Callers, a \in Operated : ConnectBegin(u, a, "ok")
  \/ \E u \in Callers : ConnectEnd(u)
  \/ \E a \in Operated, os \in {"exits", "lingers", "gone"} :
       ActionDisconnect(a, os)
  \/ \E pid \in alive : ProcessExit(pid)

SpecRace == Init /\ [][NextRace]_vars

(* C16: connects of one account are serialized: whenever no connect is in
   flight, every agent process that was launched and still runs is the one
   its account tracks, so two overlapping connects never leave a second,
   untracked agent process behind. *)
C16_ConnectSerialized ==
  (\A u \in Callers : conn[u].pc = "idle")
    => \A pid \in alive : \E a \in AccountIds : acct[a].process_id = pid

(* Messages in any status, each marked as read any number of times. *)
StoredMessage(n, status) ==
  [account_id |-> 1,
   message_id |-> [src |-> "uuid", n |-> n],
   wa_message_id |-> NoWaId,
   direction |-> "incoming",
   message_type |-> "text",
   from_number |-> NoPhone,
   to_number |-> NoPhone,
   contact_id |-> NoContact,
   is_auto_reply |-> FALSE,
   status |-> status,
   timestamp |-> 0]

InitRead ==
  /\ cfg \in Configs
  /\ acct = [a \in AccountIds |-> NewAccount]
  /\ alive = {}
  /\ nextPid = 1
  /\ contacts = {}
  /\ messages \in {[i \in 1..MaxStored |-> StoredMessage(i, f[i])] :
                     f \in [1..MaxStored -> MessageStatus]}
  /\ groups = {}
  /\ members = {}
  /\ agentLog = <<>>
  /\ now = 0
  /\ lastOp = [op |-> "init", account |-> NoAccount, pre |-> "none"]
  /\ resp = Outcome("none")
  /\ phoneIn = NoPhone
  /\ bulk = NoBulk
  /\ conn = NoConn

NextRead == \E i \in 1..Len(messages) : MarkAsRead(i)

SpecRead == InitRead /\ [][NextRead]_vars

(* The agent's delivery and read acknowledgements for a sent message. *)
AckEvents ==
  {[event |-> "message_ack", id |-> id, status |-> s] :
     id \in WaIds, s \in {"delivered", "read"}}

(* Outgoing traffic: sends through the API route, users marking stored
   Messages as read, and the agent's acknowledgements on the webhook. *)
NextOutbox ==
  \/ NextSend
  \/ NextRead
  \/ \E id \in Operated, body \in AckEvents :
       Webhook(id, [prefix |-> "sha256=",
                    digest |-> Hmac(cfg[id].webhook_secret, body)],
               body, NoAccount, QuietEnv, MaxStored, MaxStored)

SpecOutbox == InitSend /\ [][NextOutbox]_vars

(* C22: the status of an outgoing Message stored as sent changes only in
   a webhook request that carries a delivery or read event; no local
   operation (mark_as_read) advances it. *)
C22_SentAdvancesOnlyByWebhook ==
  [][\A i \in 1..Len(messages) :
       (/\ messages[i].direction = "outgoing"
        /\ messages[i].status = "sent"
        /\ i <= Len(messages')
        /\ messages'[i].status # "sent")
         => lastOp'.op = "webhook"]_vars

(* Position of a status on the path pending, sent, delivered, read. *)
StatusRank(status) ==
  CASE status = "pending" -> 1
    [] status = "sent" -> 2
    [] status = "delivered" -> 3
    [] status = "read" -> 4
    [] OTHER -> 0

(* C17: the status of a Message never moves backwards on the path pending,
   sent, delivered, read, and a Message whose status is failed or error
   keeps that status under every operation, mark_as_read included. *)
C17_MessageStatusMonotone ==
  [][\A i \in 1..Len(messages) :
       i <= Len(messages')
         => /\ messages[i].status \in {"failed", "error"}
                 => messages'[i].status = messages[i].status
            /\ (/\ StatusRank(messages[i].status) > 0
                /\ StatusRank(messages'[i].status) > 0)
                 => StatusRank(messages'[i].status)
                      >= StatusRank(messages[i].status)]_vars

(* Inbound traffic of a ready account: text messages from one sender, whose
   number the agent reports with or without the leading '+'. *)
InitInbound ==
  /\ cfg \in Configs
  /\ acct = [a \in AccountIds |->
               IF a \in Operated THEN [NewAccount EXCEPT !.status = "ready"]
               ELSE NewAccount]
  /\ alive = {}
  /\ nextPid = 1
  /\ contacts = {}
  /\ messages = <<>>
  /\ groups = {}
  /\ members = {}
  /\ agentLog = <<>>
  /\ now = 0
  /\ lastOp = [op |-> "init", account |-> NoAccount, pre |-> "none"]
  /\ resp = Outcome("none")
  /\ phoneIn = NoPhone
  /\ bulk = NoBulk
  /\ conn = NoConn

InboundEvents ==
  {m \in MessageEvents :
     m.type = "text" /\ m.id = "w1" /\ m.from \in {<<"1">>, <<"+", "1">>}}

NextInbound ==
  \E id \in Operated, body \in InboundEvents, ctx \in {NoAccount} \cup Operated,
     env \in EnvsFor([event |-> "message"]) :
    MessageDelivery(id, body, ctx, env)

SpecInbound == InitInbound /\ [][NextInbound]_vars

(* The Contacts of an account with a phone number. *)
ContactsOf(rows, account_id, phone) ==
  {c \in rows : c.account_id = account_id /\ c.phone_number = phone}

(* C18: every inbound message from a sender number is persisted and
   references the one Contact of (account, canonical number): the Contact is
   created by the first message and reused by the later ones. *)
C18_ContactResolvedOnce ==
  [][(lastOp'.op = "webhook" /\ lastOp'.from # NoPhone)
     => /\ Len(messages') = Len(messages) + 1
              \/ (Len(messages') = Len(messages) + 2
                    /\ messages'[Len(messages')].direction = "outgoing")
        /\ messages'[Len(messages) + 1].direction = "incoming"
        /\ messages'[Len(messages) + 1].from_number = lastOp'.from
        /\ messages'[Len(messages) + 1].contact_id
             \in ContactsOf(contacts', lastOp'.account,
                            _format_phone_number(lastOp'.from))
        /\ Cardinality(ContactsOf(contacts', lastOp'.account,
                                  _format_phone_number(lastOp'.from))) = 1]_vars

(* C19: once the incoming Message row is inserted, the Message exists after
   the webhook call, whichever of the auto-reply, the lead creation and the
   notification failed. *)
C19_SideEffectsNeverBlockInbound ==
  [][(lastOp'.op = "webhook" /\ lastOp'.primary)
     => /\ Len(messages') > Len(messages)
        /\ messages'[Len(messages) + 1].direction = "incoming"
        /\ messages'[Len(messages) + 1].from_number = lastOp'.from]_vars

(* The incoming Messages stored for an account. *)
Incoming(msgs, a) ==
  {i \in 1..Len(msgs) :
     msgs[i].account_id = a /\ msgs[i].direction = "incoming"}

(* C28: messages_received of an account equals the number of incoming
   Messages stored for it through the webhook: every message event that
   persists a Message adds exactly one. *)
C28_ReceivedCounterMatchesIncoming ==
  \A a \in AccountIds :
    acct[a].messages_received = Cardinality(Incoming(messages, a))

(* Messages in both directions: the agent's message events, and sends for
   the operated account by callers whose context names no account, this
   account or another one (a wizard opened from another account's record
   carries that account as default_account_id). *)
NextOwner ==
  \/ NextInbound
  \/ \E a \in Operated, to \in Senders \ {NoPhone}, ctx \in Contexts,
        env \in SendEnvs :
       SendMessage(a, to, ctx, env)

SpecOwner == InitInbound /\ [][NextOwner]_vars

(* C30: a Message that references a Contact references a Contact of its
   own Account, for Messages stored by the webhook and by a send alike. *)
C30_ContactOfSameAccount ==
  \A i \in 1..Len(messages) :
    messages[i].contact_id # NoContact
      => messages[i].contact_id.account_id = messages[i].account_id

====
